---- MODULE Spec2Model ----
(***************************************************************************)
(* The configuration constraint engine of visualCaseGen.                   *)
(*                                                                         *)
(* The logic engine is class Logic of visualCaseGen/config_var_base.py.    *)
(* Two variable classes coexist in the source and both run on that engine: *)
(*   "ConfigVarBase"  visualCaseGen/config_var_base.py: the value setter   *)
(*                    validates through Logic.add_assignment (fresh solver *)
(*                    check), options through _update_options;             *)
(*   "ConfigVar"      ProConPy/config_var.py with the validator of         *)
(*                    visualCaseGen/config_var_bool.py: the value setter   *)
(*                    validates against the stored validities, then        *)
(*                    _post_value_change registers the assignment; options *)
(*                    through update_options_validities.                   *)
(* A run uses one of the two classes for all its variables (varclass).     *)
(* Only ConfigVar has lock(); its csp solver is the same Logic engine.     *)
(*                                                                         *)
(* The z3 solver is modelled by enumeration: every z3 constant ranges over *)
(* a finite universe of strings that contains every literal the relations  *)
(* and the option lists mention.                                           *)
(***************************************************************************)
EXTENDS Integers, Sequences, FiniteSets, TLC

VARIABLES
    varclass,            \* which of the two variable classes the run uses
    value,               \* ConfigVar.value trait, per variable
    options,             \* ConfigVar._options, per variable (<<>>: no options)
    options_validities,  \* ConfigVar._options_validities, per variable
    asrt_assignments,    \* Logic.asrt_assignments
    asrt_options,        \* Logic.asrt_options ({}: no entry)
    asrt_relationals,    \* Logic.asrt_relationals, in insertion order
    related_vars,        \* ConfigVarBase._related_vars, per variable
    all_relational_vars, \* Logic.all_relational_vars
    vdict,               \* ConfigVar.vdict: the names of the instances
    locked,              \* ConfigVar._lock
    pending,             \* the names the application has yet to construct
    solver,              \* "z3": check() answers sat or unsat;
                         \* "unknown": it gives up on every query
    stage_active,        \* the titles of the active leaf Stages
                         \* ({}: the application set up no stages)
    stage_complete       \* the titles of the complete Stages

vars == <<varclass, value, options, options_validities, asrt_assignments,
          asrt_options, asrt_relationals, related_vars, all_relational_vars,
          vdict, locked, pending, solver, stage_active, stage_complete>>

-----------------------------------------------------------------------------
(* The variables, their universes and the relation bundle.                 *)

None == "None"

VarOrder == <<"COMP_ATM", "COMP_ICE", "COMP_LND", "COMP_ROF", "COMP_OCN",
              "COMP_ICE_OPTION", "OCN_CYCLIC_X">>

Range(s) == {s[i] : i \in DOMAIN s}

\* The names a variable can be defined under.
Vars == Range(VarOrder)

\* The component variables, which exist when the application runs.
ComponentVars == {"COMP_ATM", "COMP_ICE", "COMP_LND", "COMP_ROF", "COMP_OCN"}

\* The instances of ConfigVarBool, which are z3 Bool constants.
BoolVars == {"OCN_CYCLIC_X"}

\* The Python values True and False.
PyTrue == "bool True"

PyFalse == "bool False"

\* str(val): the text of a bool; a string is its own text.
str(val) ==
    IF val = PyTrue THEN "True" ELSE IF val = PyFalse THEN "False" ELSE val

\* The strings each z3 constant may take.  For COMP_LND, which has no
\* options list, "slnd" stands for every string other than "clm": no
\* relation tells them apart.
Universe ==
    [COMP_ATM |-> {"cam", "datm"},
     COMP_ICE |-> {"dice", "cice", "sice"},
     COMP_LND |-> {"clm", "slnd"},
     COMP_ROF |-> {"mosart", "srof"},
     COMP_OCN |-> {"socn", "mom"},
     COMP_ICE_OPTION |-> {"(none)", "SSMI"},
     OCN_CYCLIC_X |-> {PyTrue, PyFalse}]

\* The options lists the options setter is called with.
OptionsCatalog ==
    [COMP_ATM |-> {<<"cam", "datm">>},
     COMP_ICE |-> {<<"dice", "cice", "sice">>, <<"dice", "cice">>},
     COMP_LND |-> {},
     COMP_ROF |-> {},
     COMP_OCN |-> {<<"socn", "mom">>, <<"mom">>},
     COMP_ICE_OPTION |-> {<<"(none)", "SSMI">>},
     OCN_CYCLIC_X |-> {<<PyTrue, PyFalse>>}]

InitialOptions ==
    [COMP_ATM |-> <<"cam", "datm">>,
     COMP_ICE |-> <<"dice", "cice", "sice">>,
     COMP_LND |-> <<>>,
     COMP_ROF |-> <<"mosart", "srof">>,
     COMP_OCN |-> <<"socn", "mom">>,
     COMP_ICE_OPTION |-> <<"(none)", "SSMI">>,
     OCN_CYCLIC_X |-> <<PyTrue, PyFalse>>]

\* The layer index of each variable in the Layer Graph: component selection
\* is in layer 0, component options are in layer 2.
layer == [v \in Vars |-> IF v = "COMP_ICE_OPTION" THEN 2 ELSE 0]

\* Variables constructed with always_set=True.
always_set == {"COMP_OCN", "OCN_CYCLIC_X"}

\* The relational assertions of relational_assertions_setter that the model
\* registers, named by their error message.
RelationBundle == <<"CAM cannot be coupled with Data ICE.",
                    "If running with RTM|MOSART, CLM must be selected as the land component.",
                    "If CLM is coupled with DATM, then both ICE and OCN must be stub.">>

\* The bundle of an application that defines COMP_ATM, COMP_ICE and
\* COMP_ICE_OPTION: a relation and a preconditioned assertion,
\* When(COMP_ICE=="dice", COMP_ICE_OPTION != "(none)").
WhenBundle == <<"CAM cannot be coupled with Data ICE.",
                "Must pick a valid DICE option.">>

\* A bundle that repeats a relation of RelationBundle after a new one.
MixedBundle == <<"When MOM|POP is forced with DATM, LND must be stub.",
                 "CAM cannot be coupled with Data ICE.">>

\* The bundles insert_relational_assertions is called with.
BundleCatalog == {RelationBundle, WhenBundle, MixedBundle}

\* The z3 term of a relation, evaluated under the valuation m.
Holds(r, m) ==
    CASE r = "CAM cannot be coupled with Data ICE." ->
            (m["COMP_ATM"] = "cam") => (m["COMP_ICE"] # "dice")
      [] r = "If running with RTM|MOSART, CLM must be selected as the land component." ->
            (m["COMP_ROF"] = "rtm" \/ m["COMP_ROF"] = "mosart") => (m["COMP_LND"] = "clm")
      [] r = "If CLM is coupled with DATM, then both ICE and OCN must be stub." ->
            (m["COMP_ATM"] = "datm" /\ m["COMP_LND"] = "clm")
                => (m["COMP_ICE"] = "sice" /\ m["COMP_OCN"] = "socn")
      [] r = "Must pick a valid DICE option." ->
            (m["COMP_ICE"] = "dice") => (m["COMP_ICE_OPTION"] # "(none)")
      [] r = "When MOM|POP is forced with DATM, LND must be stub." ->
            (m["COMP_OCN"] \in {"pop", "mom"} /\ m["COMP_ATM"] = "datm")
                => (m["COMP_LND"] = "slnd")

\* z3util.get_vars of a relation.
get_vars(r) ==
    CASE r = "CAM cannot be coupled with Data ICE." -> {"COMP_ATM", "COMP_ICE"}
      [] r = "If running with RTM|MOSART, CLM must be selected as the land component." ->
            {"COMP_ROF", "COMP_LND"}
      [] r = "If CLM is coupled with DATM, then both ICE and OCN must be stub." ->
            {"COMP_ATM", "COMP_LND", "COMP_ICE", "COMP_OCN"}
      [] r = "Must pick a valid DICE option." -> {"COMP_ICE", "COMP_ICE_OPTION"}
      [] r = "When MOM|POP is forced with DATM, LND must be stub." ->
            {"COMP_OCN", "COMP_ATM", "COMP_LND"}

\* A set of variables as a list (the iteration order of a Python set; the
\* result of the traversal below does not depend on it, see
\* _update_all_options_validities).
SeqOf(S) == SelectSeq(VarOrder, LAMBDA v : v \in S)

-----------------------------------------------------------------------------
(* The solver.                                                             *)

\* The values the solver can give to v under the assignments asg and the
\* option assertions aopt: the assigned value if there is one, else the
\* strings the option assertion allows.
Dom(asg, aopt, v) ==
    {x \in Universe[v] :
        /\ asg[v] # None => x = asg[v]
        /\ aopt[v] # {} => x \in aopt[v]}

\* The assertions are satisfiable: the assignments asg, the option
\* assertions aopt and the relations rels.  No relation mentions a Bool
\* constant, so it only has to have a value of its own.
check(asg, aopt, rels) ==
    /\ \A b \in BoolVars : Dom(asg, aopt, b) # {}
    /\ \E atm \in Dom(asg, aopt, "COMP_ATM"), ice \in Dom(asg, aopt, "COMP_ICE"),
       lnd \in Dom(asg, aopt, "COMP_LND"), rof \in Dom(asg, aopt, "COMP_ROF"),
       ocn \in Dom(asg, aopt, "COMP_OCN"),
       iceopt \in Dom(asg, aopt, "COMP_ICE_OPTION") :
        \A r \in rels :
            Holds(r, [COMP_ATM |-> atm, COMP_ICE |-> ice, COMP_LND |-> lnd,
                      COMP_ROF |-> rof, COMP_OCN |-> ocn,
                      COMP_ICE_OPTION |-> iceopt])

\* s.check() == sat: false also when the solver answers unknown.
is_sat(asg, aopt, rels) == solver = "z3" /\ check(asg, aopt, rels)

\* s.check() == unsat: false also when the solver answers unknown.
is_unsat(asg, aopt, rels) == solver = "z3" /\ ~check(asg, aopt, rels)

-----------------------------------------------------------------------------
(* The engine state as one record, so that the nested calls of a handler   *)
(* compose.                                                                *)

\* The characters that mark an option valid or invalid in the widget, the
\* widget value that stands for None, and the widget value that
\* _update_widget_value displays for a value.
valid_opt_char == "valid"

invalid_opt_char == "invalid"

widget_none_val == <<"", None>>

widget_display(val) ==
    IF val = None THEN widget_none_val ELSE <<valid_opt_char, str(val)>>

\* _update_widget_value: the sink displays the value of var.
update_widget_value(S, var) ==
    [S EXCEPT !.sink[var] = widget_display(S.value[var])]

Cur == [value |-> value, options |-> options,
        options_validities |-> options_validities,
        asrt_assignments |-> asrt_assignments,
        asrt_options |-> asrt_options,
        sink |-> [v \in Vars |-> widget_display(value[v])],
        log |-> <<>>,
        active |-> stage_active, complete |-> stage_complete]

\* The steps of the running handler in the order the code takes them:
\* <<"value", v>> the trait takes its value, <<"sink", v>> the widget value
\* is refreshed, <<"register", v>> the assignment assertion of v is
\* installed or popped, <<"recompute", v>> the validities of v are
\* evaluated, <<"enter", v>> and <<"leave", v>> the routine that updates the
\* options and validities of v starts and returns.
Log(S, e) == [S EXCEPT !.log = Append(@, e)]

has_options(S, var) == S.options[var] # <<>>

Result(S, status, err_msg) == [S |-> S, status |-> status, err_msg |-> err_msg]


-----------------------------------------------------------------------------
(* class Logic (visualCaseGen/config_var_base.py).                         *)

\* Logic.add_options: the option assertion Or([var==opt for opt in new_opts]).
add_options(S, var, new_opts) ==
    [S EXCEPT !.asrt_options[var] = Range(new_opts)]

\* Mutant: only the satisfiable options get an entry in the map.
get_options_validities_valid_only(S, var) ==
    [opt \in {o \in Range(S.options[var]) :
                 is_sat([S.asrt_assignments EXCEPT ![var] = o],
                        S.asrt_options, Range(asrt_relationals))} |-> TRUE]

\* Logic.get_options_validities with s=None: a solver holding the option
\* assertions, the relations and the assignments of the other variables;
\* each option is checked as the assumption var==opt.
get_options_validities(S, var) ==
    [opt \in Range(S.options[var]) |->
        is_sat([S.asrt_assignments EXCEPT ![var] = opt], S.asrt_options,
               Range(asrt_relationals))]

\* __eval_new_validities of Logic._update_all_options_validities.
eval_new_validities(S, var) ==
    [opt \in Range(S.options[var]) |->
        is_sat([S.asrt_assignments EXCEPT ![var] = opt], S.asrt_options,
               Range(asrt_relationals))]

\* Mutant: a variable whose value became invalid is unset.
update_validities_unset_invalid(S, var, new_validities) ==
    IF S.value[var] # None /\ S.value[var] \in DOMAIN new_validities
       /\ ~new_validities[S.value[var]]
    THEN [S EXCEPT !.options_validities[var] = new_validities,
                   !.value[var] = None,
                   !.asrt_assignments[var] = None]
    ELSE [S EXCEPT !.options_validities[var] = new_validities]

\* var._update_options(new_validities=...): options unchanged, so only the
\* validities (and the displayed options) change; the value is kept.
update_validities(S, var, new_validities) ==
    [S EXCEPT !.options_validities[var] = new_validities]

\* Mutant: the related variables of a changed variable are appended
\* whether or not they are in the list already.
RECURSIVE update_loop_append_all(_, _, _)
update_loop_append_all(S, affected_vars, ivar) ==
    IF ~(Len(affected_vars) > ivar)
    THEN S
    ELSE LET var == affected_vars[ivar + 1]
             new_validities == eval_new_validities(S, var)
             S1 == IF has_options(S, var) THEN Log(S, <<"recompute", var>>) ELSE S
         IN  IF has_options(S, var)
                /\ new_validities # S.options_validities[var]
             THEN update_loop_append_all(
                    update_validities(S1, var, new_validities),
                    affected_vars \o SeqOf(related_vars[var]),
                    ivar + 1)
             ELSE update_loop_append_all(S1, affected_vars, ivar + 1)

\* Mutant: the related variables of a visited variable are appended
\* whether or not its validities changed.
RECURSIVE update_loop_append_unchanged(_, _, _)
update_loop_append_unchanged(S, affected_vars, ivar) ==
    IF ~(Len(affected_vars) > ivar)
    THEN S
    ELSE LET var == affected_vars[ivar + 1]
             new_validities == eval_new_validities(S, var)
             S1 == IF has_options(S, var) THEN Log(S, <<"recompute", var>>) ELSE S
             S2 == IF has_options(S, var)
                      /\ new_validities # S.options_validities[var]
                   THEN update_validities(S1, var, new_validities)
                   ELSE S1
         IN  update_loop_append_unchanged(
                S2,
                affected_vars \o SeqOf(related_vars[var] \ Range(affected_vars)),
                ivar + 1)

\* The while loop of Logic._update_all_options_validities.  ivar is the
\* 0-based index of the source.
RECURSIVE update_loop(_, _, _)
update_loop(S, affected_vars, ivar) ==
    IF ~(Len(affected_vars) > ivar)
    THEN S
    ELSE LET var == affected_vars[ivar + 1]
             new_validities == eval_new_validities(S, var)
             S1 == IF has_options(S, var) THEN Log(S, <<"recompute", var>>) ELSE S
         IN  IF has_options(S, var)
                /\ new_validities # S.options_validities[var]
             THEN update_loop(
                    update_validities(S1, var, new_validities),
                    affected_vars \o SeqOf(related_vars[var] \ Range(affected_vars)),
                    ivar + 1)
             ELSE update_loop(S1, affected_vars, ivar + 1)

\* Logic._update_all_options_validities(invoker_var).  The assignments do
\* not change during the traversal, so the validities it stores do not
\* depend on the order in which the related variables are listed.
update_all_options_validities(S, invoker_var) ==
    update_loop(S, <<invoker_var>> \o SeqOf(related_vars[invoker_var]), 1)

\* The relations asrt_relationals[1..i].
Prefix(i) == {asrt_relationals[j] : j \in 1..i}

\* The for loop that adds the relations one by one to a solver holding the
\* assignments asg and the option assertions aopt: the index of the first
\* relation after whose addition the solver is unsat, 0 if there is none.
first_unsat(asg, aopt) ==
    LET bad == {i \in 1..Len(asrt_relationals) : is_unsat(asg, aopt, Prefix(i))}
    IN  IF bad = {} THEN 0 ELSE CHOOSE i \in bad : \A j \in bad : i <= j

\* Mutant: a refused assignment does not reinsert the popped assertion.
add_assignment_no_reinsert(S, var, new_value, check_sat) ==
    LET popped    == Log([S EXCEPT !.asrt_assignments[var] = None],
                         <<"register", var>>)
        tentative == [S.asrt_assignments EXCEPT ![var] = new_value]
        culprit   == first_unsat(tentative, S.asrt_options)
    IN  IF new_value = None
        THEN Result(update_all_options_validities(popped, var), "ok", <<>>)
        ELSE IF check_sat /\ has_options(S, var)
                /\ new_value \notin Range(S.options[var])
        THEN Result(popped, "NotAnOption", <<>>)
        ELSE IF check_sat
                /\ is_unsat(tentative, S.asrt_options, Range(asrt_relationals))
                /\ culprit # 0
        THEN Result(popped, "ConstraintViolation", <<asrt_relationals[culprit]>>)
        ELSE Result(update_all_options_validities(
                        Log([S EXCEPT !.asrt_assignments[var] = new_value],
                            <<"register", var>>), var),
                    "ok", <<>>)

\* Mutant: the options list is not looked at before the solver check.
add_assignment_no_options_test(S, var, new_value, check_sat) ==
    LET popped    == Log([S EXCEPT !.asrt_assignments[var] = None],
                         <<"register", var>>)
        tentative == [S.asrt_assignments EXCEPT ![var] = new_value]
        culprit   == first_unsat(tentative, S.asrt_options)
    IN  IF new_value = None
        THEN Result(update_all_options_validities(popped, var), "ok", <<>>)
        ELSE IF check_sat
                /\ is_unsat(tentative, S.asrt_options, Range(asrt_relationals))
                /\ culprit # 0
        THEN Result(S, "ConstraintViolation", <<asrt_relationals[culprit]>>)
        ELSE Result(update_all_options_validities(
                        Log([S EXCEPT !.asrt_assignments[var] = new_value],
                            <<"register", var>>), var),
                    "ok", <<>>)

\* Mutant: the validities are refreshed before the assertion is installed.
add_assignment_refresh_first(S, var, new_value, check_sat) ==
    LET tentative == [S.asrt_assignments EXCEPT ![var] = new_value]
        culprit   == first_unsat(tentative, S.asrt_options)
        refreshed == update_all_options_validities(S, var)
    IN  IF new_value = None
        THEN Result(Log([refreshed EXCEPT !.asrt_assignments[var] = None],
                        <<"register", var>>), "ok", <<>>)
        ELSE IF check_sat /\ has_options(S, var)
                /\ new_value \notin Range(S.options[var])
        THEN Result(S, "NotAnOption", <<>>)
        ELSE IF check_sat
                /\ is_unsat(tentative, S.asrt_options, Range(asrt_relationals))
                /\ culprit # 0
        THEN Result(S, "ConstraintViolation", <<asrt_relationals[culprit]>>)
        ELSE Result(Log([refreshed EXCEPT !.asrt_assignments[var] = new_value],
                        <<"register", var>>), "ok", <<>>)

\* Logic.add_assignment(var, new_value, check_sat).  The AssertionError it
\* raises is status NotAnOption or ConstraintViolation, by its message.
add_assignment(S, var, new_value, check_sat) ==
    LET popped    == Log([S EXCEPT !.asrt_assignments[var] = None],
                         <<"register", var>>)
        tentative == [S.asrt_assignments EXCEPT ![var] = new_value]
        culprit   == first_unsat(tentative, S.asrt_options)
    IN  IF new_value = None
        THEN Result(update_all_options_validities(popped, var), "ok", <<>>)
        ELSE IF check_sat /\ has_options(S, var)
                /\ new_value \notin Range(S.options[var])
        THEN Result(S, "NotAnOption", <<>>)
        ELSE IF check_sat
                /\ is_unsat(tentative, S.asrt_options, Range(asrt_relationals))
                /\ culprit # 0
        THEN Result(S, "ConstraintViolation", <<asrt_relationals[culprit]>>)
        ELSE Result(update_all_options_validities(
                        Log([S EXCEPT !.asrt_assignments[var] = new_value],
                            <<"register", var>>), var),
                    "ok", <<>>)

\* Logic.retrieve_error_msg(var, value).
retrieve_error_msg(S, var, val) ==
    LET tentative == [S.asrt_assignments EXCEPT ![var] = val]
        culprit   == first_unsat(tentative, S.asrt_options)
    IN  IF is_sat(tentative, S.asrt_options, Range(asrt_relationals))
        THEN Result(S, "RuntimeError", <<>>)
        ELSE IF culprit # 0
        THEN Result(S, "ConstraintViolation", <<asrt_relationals[culprit]>>)
        ELSE Result(S, "ConstraintViolation", <<"violates multiple assertions.">>)

-----------------------------------------------------------------------------
(* class ConfigVarBase (visualCaseGen/config_var_base.py).                 *)

\* The value setter of a ConfigVarBase variable: the assignment goes through
\* Logic.add_assignment with check_sat=True (None: the assertion is popped,
\* nothing is checked), and the trait takes the value when that returned.
ConfigVarBase_set_value(S, var, new_val) ==
    LET r == add_assignment(S, var, new_val, TRUE)
    IN  IF r.status = "ok"
        THEN Result(update_widget_value(
                        Log([r.S EXCEPT !.value[var] = new_val], <<"value", var>>),
                        var),
                    "ok", <<>>)
        ELSE r

\* ConfigVarBase._set_to_first_valid_opt.
set_to_first_valid_opt(S, var) ==
    LET valid == {i \in DOMAIN S.options[var] :
                    S.options_validities[var][S.options[var][i]]}
    IN  IF valid = {}
        THEN S
        ELSE ConfigVarBase_set_value(
                S, var, S.options[var][CHOOSE i \in valid : \A j \in valid : i <= j]).S

\* ConfigVarBase._update_options(new_opts=...), called by the options setter.
update_options(S, var, new_opts) ==
    LET validity_change_only == new_opts = S.options[var]
        old_validities == S.options_validities[var]
        S0 == Log(S, <<"enter", var>>)
        S1 == IF validity_change_only THEN S0
              ELSE [S0 EXCEPT !.options[var] = new_opts]
        S2 == Log([S1 EXCEPT !.options_validities[var] =
                                get_options_validities(S1, var)],
                  <<"recompute", var>>)
        S3 == IF validity_change_only /\ old_validities = S2.options_validities[var]
              THEN S2
              ELSE IF validity_change_only
              THEN S2
              ELSE IF var \in always_set
              THEN set_to_first_valid_opt(S2, var)
              ELSE S2
    IN  Log(S3, <<"leave", var>>)

\* The options setter of ConfigVarBase.
ConfigVarBase_options(S, var, new_opts) ==
    update_options(add_options(S, var, new_opts), var, new_opts)

-----------------------------------------------------------------------------
(* class ConfigVar (ProConPy/config_var.py), with the validator of         *)
(* visualCaseGen/config_var_bool.py.                                       *)

\* The guard of the validator for a value outside the options list, which
\* fails NotAnOption before anything else is looked at.
not_an_option(S, var, new_val) ==
    has_options(S, var) /\ new_val \notin Range(S.options[var])

\* logic.check_assignment(var, new_val): a solver check of the assignment
\* against the other assignments, the option assertions and the relations.
check_assignment(S, var, new_val) ==
    IF is_sat([S.asrt_assignments EXCEPT ![var] = new_val], S.asrt_options,
              Range(asrt_relationals))
    THEN Result(S, "ok", <<>>)
    ELSE retrieve_error_msg(S, var, new_val)

\* _validate_value: the traitlets validator, not called for None.  A
\* variable with options is decided from its stored validities, one without
\* options by logic.check_assignment.
validate_value(S, var, new_val) ==
    IF has_options(S, var)
    THEN IF S.options_validities[var][new_val] = FALSE
         THEN retrieve_error_msg(S, var, new_val)
         ELSE Result(S, "ok", <<>>)
    ELSE check_assignment(S, var, new_val)

\* Mutant: the observer refreshes the widget and registers nothing.
post_value_change_unregistered(S, var, new_val) ==
    Log(update_widget_value(S, var), <<"sink", var>>)

\* ConfigVar._post_value_change: the widget value is refreshed, then the
\* assignment is registered with the engine, which installs the assertion
\* and refreshes the validities of the affected variables.
post_value_change(S, var, new_val) ==
    add_assignment(Log(update_widget_value(S, var), <<"sink", var>>),
                   var, new_val, FALSE).S

\* self.value = new_val on a ConfigVar: validation (unless None), the trait
\* update, and the observer _post_value_change when the value changed.
ConfigVar_set_value(S, var, new_val) ==
    LET v == IF new_val = None THEN Result(S, "ok", <<>>)
             ELSE IF not_an_option(S, var, new_val)
             THEN Result(S, "NotAnOption", <<>>)
             ELSE validate_value(S, var, new_val)
    IN  IF v.status # "ok"
        THEN v
        ELSE IF new_val = S.value[var]
        THEN Result(S, "ok", <<>>)
        ELSE Result(post_value_change(
                        Log([S EXCEPT !.value[var] = new_val], <<"value", var>>),
                        var, new_val),
                    "ok", <<>>)

\* ConfigVar.get_first_valid_option.
get_first_valid_option(S, var) ==
    LET valid == {i \in DOMAIN S.options[var] :
                    S.options_validities[var][S.options[var][i]]}
    IN  IF valid = {}
        THEN None
        ELSE S.options[var][CHOOSE i \in valid : \A j \in valid : i <= j]

\* ConfigVar.update_options_validities.
update_options_validities(S, var) ==
    LET old_validities == S.options_validities[var]
        S1 == Log([Log(S, <<"enter", var>>) EXCEPT !.options_validities[var] =
                                get_options_validities(S, var)],
                  <<"recompute", var>>)
        S2 == ConfigVar_set_value(S1, var, None).S
        S3 == IF S1.options_validities[var] = old_validities
              THEN S1
              ELSE IF DOMAIN old_validities # DOMAIN S1.options_validities[var]
              THEN IF var \in always_set
                   THEN ConfigVar_set_value(S2, var, get_first_valid_option(S2, var)).S
                   ELSE IF S1.value[var] # None
                   THEN S2
                   ELSE S1
              ELSE S1
    IN  Log(S3, <<"leave", var>>)

\* The options setter of ConfigVar.
ConfigVar_options(S, var, new_opts) ==
    update_options_validities(
        add_options([S EXCEPT !.options[var] = new_opts], var, new_opts), var)

-----------------------------------------------------------------------------
(* The public operations.                                                  *)

set_value(S, var, new_val) ==
    IF varclass = "ConfigVarBase"
    THEN ConfigVarBase_set_value(S, var, new_val)
    ELSE ConfigVar_set_value(S, var, new_val)

set_options(S, var, new_opts) ==
    IF varclass = "ConfigVarBase"
    THEN ConfigVarBase_options(S, var, new_opts)
    ELSE ConfigVar_options(S, var, new_opts)

\* The conversion of the text of a widget value to a bool; None stands for
\* a text that is neither "True" nor "False", on which the handler raises.
parse_bool(text) ==
    IF text = "True" THEN PyTrue ELSE IF text = "False" THEN PyFalse ELSE None

\* _process_frontend_value_change: the user picked new_val (an option, or
\* None for the widget's none value) in the widget of var.  The widget
\* shows each option with the character of its stored validity, and the
\* handler reads the validity character and the text back from the widget
\* value.  For a ConfigVarBool the text is converted to a bool first, and a
\* text that is neither "True" nor "False" raises RuntimeError (a none
\* value that is not a string fails two lines earlier, at its subscript);
\* for a string variable the text is the value.
process_frontend_value_change(S, var, new_val) ==
    LET new_val_validity_char ==
            IF new_val # None /\ ~S.options_validities[var][new_val]
            THEN invalid_opt_char ELSE valid_opt_char
        new_widget_val ==
            IF new_val = None THEN widget_none_val
            ELSE <<new_val_validity_char, str(new_val)>>
        S0 == [S EXCEPT !.sink[var] = new_widget_val]
        text == new_widget_val[2]
        parsed == IF var \in BoolVars THEN parse_bool(text) ELSE text
        e  == retrieve_error_msg(S0, var, parsed)
    IN  IF ~has_options(S, var)
        THEN Result(S0, "NotImplementedError", <<>>)
        ELSE IF var \in BoolVars /\ parsed = None
        THEN Result(S0, "RuntimeError", <<>>)
        ELSE IF new_widget_val = widget_none_val /\ var \in always_set
        THEN Result(update_widget_value(S0, var), "ok", <<>>)
        ELSE IF new_val_validity_char = invalid_opt_char
        THEN IF e.status = "RuntimeError"
             THEN Result(S0, "RuntimeError", <<>>)
             ELSE Result(update_widget_value(S0, var), "alert", e.err_msg)
        ELSE set_value(S0, var, parsed)

-----------------------------------------------------------------------------
(* The Stage Machine (ProConPy.stage).  The tree of the model has a root   *)
(* with two leaves; the second leaf is guarded by a variable of the first. *)
(* The reaction of the machine to a change is computed on a record P:      *)
(* active and complete are the sets of titles, val the values as they are  *)
(* once the variables of clear, a list in clearing order, are reset.       *)

StageRoot == "1. Component Set"

\* The leaves under the root, in pre-order.
StageOrder == <<"Components", "Component Options">>

\* Stage.first(): the root's first child.
stage_first == StageOrder[1]

\* The variables a Stage owns, in the order of ownership: those of its
\* list that the application defined.
stage_varlist(s) ==
    SelectSeq(CASE s = "Components" ->
                       <<"COMP_ATM", "COMP_ICE", "COMP_LND", "COMP_ROF", "COMP_OCN">>
                [] s = "Component Options" -> <<"COMP_ICE_OPTION">>
                [] OTHER -> <<>>,
              LAMBDA v : v \in vdict)

\* The variables of the small application with stages, and of the full one.
StageVars == {"COMP_ATM", "COMP_ICE", "COMP_OCN", "COMP_ICE_OPTION"}

StageVarsFull == ComponentVars \cup {"COMP_ICE_OPTION"}

\* The relations of the full application with stages.
StagesBundle == RelationBundle \o <<"Must pick a valid DICE option.">>

\* The antecedent variables of the guard of a Stage.
stage_guard_vars(s) == IF s = "Component Options" THEN {"COMP_ICE"} ELSE {}

\* The guard of a Stage on the values val (TRUE: no guard).
stage_guard(val, s) ==
    (s = "Component Options") => (val["COMP_ICE"] = "dice")

stage_index(s) == CHOOSE i \in 1 .. Len(StageOrder) : StageOrder[i] = s

Reverse(seq) == [i \in 1 .. Len(seq) |-> seq[Len(seq) + 1 - i]]

\* The variables of varlist are set to None through their setter, from the
\* first to the last: varlist[i], ..., varlist[Len(varlist)].
RECURSIVE turn_off_from(_, _, _)
turn_off_from(S, varlist, i) ==
    IF i > Len(varlist) THEN S
    ELSE turn_off_from(set_value(S, varlist[i], None).S, varlist, i + 1)

\* Mutant: the variables are cleared without their setter, so the logic
\* engine keeps their assignment assertions.
turn_off_bypassing_setter(S, varlist) ==
    [S EXCEPT !.value = [v \in Vars |->
                            IF v \in Range(varlist) THEN None ELSE @[v]]]

turn_off(S, varlist) == turn_off_from(S, varlist, 1)

\* The completion rule: every owned variable that is always_set has a
\* value (the leaves have no substages).
stage_is_complete(val, s) ==
    \A v \in Range(stage_varlist(s)) \cap always_set : val[v] # None

\* The variables of the Stage s are reset.
stage_clear(P, s) ==
    [P EXCEPT !.clear = @ \o stage_varlist(s),
              !.val = [v \in Vars |->
                          IF v \in Range(stage_varlist(s)) THEN None ELSE @[v]]]

\* The Stage s is skipped: marked complete, its variables reset.
stage_skip(P, s) == [stage_clear(P, s) EXCEPT !.complete = @ \cup {s}]

\* Mutant: the next leaf becomes active while the completed one stays so.
stage_enter_keeping_active(P, i) ==
    IF i > Len(StageOrder)
    THEN [P EXCEPT !.complete = @ \cup {StageRoot}]
    ELSE [P EXCEPT !.active = @ \cup {StageOrder[i]}]

\* Activity goes to the leaf at position i of the pre-order, or, when its
\* guard is false, the leaf is skipped and activity goes on; after the last
\* leaf the parent completes and the leaf that was active stays the active
\* one.
RECURSIVE stage_enter(_, _)
stage_enter(P, i) ==
    IF i > Len(StageOrder)
    THEN [P EXCEPT !.complete = @ \cup {StageRoot}]
    ELSE IF stage_guard(P.val, StageOrder[i])
    THEN [P EXCEPT !.active = {StageOrder[i]}]
    ELSE stage_enter(stage_skip(P, StageOrder[i]), i + 1)

\* The Stage s completes and hands activity over.
stage_proceed(P, s) ==
    stage_enter([P EXCEPT !.complete = @ \cup {s}], stage_index(s) + 1)

\* Mutant: a Stage whose guard turns false is marked complete at once,
\* wherever activity is.
stage_guards_from_eager(P, var, i) ==
    LET s == StageOrder[2]
    IN  IF var \in stage_guard_vars(s) /\ ~stage_guard(P.val, s)
        THEN IF s \in P.active THEN stage_proceed(stage_skip(P, s), s)
             ELSE stage_skip(P, s)
        ELSE P

\* var changed: the guards that mention var are evaluated again, from leaf
\* i of the pre-order on.  A Stage whose guard is false has its variables
\* reset; when it is the active Stage it is skipped, and a Stage that
\* activity has yet to reach is skipped when activity reaches it.
RECURSIVE stage_guards_from(_, _, _)
stage_guards_from(P, var, i) ==
    IF i > Len(StageOrder) THEN P
    ELSE LET s == StageOrder[i]
         IN  IF var \in stage_guard_vars(s) /\ ~stage_guard(P.val, s)
             THEN stage_guards_from(
                      IF s \in P.active
                      THEN stage_proceed(stage_skip(P, s), s)
                      ELSE stage_clear(P, s),
                      var, i + 1)
             ELSE stage_guards_from(P, var, i + 1)

\* Mutant: the active Stage completes at every change of one of its
\* variables, whatever the completion rule says.
stage_on_value_change_no_rule(P, var) ==
    LET P1 == stage_guards_from(P, var, 1)
        a  == CHOOSE s \in P1.active : TRUE
    IN  IF var \in Range(stage_varlist(a))
        THEN stage_proceed(P1, a) ELSE P1

\* The observer of the value of var: the guards first, then the completion
\* of the active Stage when var is one of its variables.
stage_on_value_change(P, var) ==
    LET P1 == stage_guards_from(P, var, 1)
        a  == CHOOSE s \in P1.active : TRUE
    IN  IF var \in Range(stage_varlist(a)) /\ stage_is_complete(P1.val, a)
        THEN stage_proceed(P1, a) ELSE P1

\* The stages and values of the engine state S, nothing to reset yet.
stage_plan(S) ==
    [active |-> S.active, complete |-> S.complete, clear |-> <<>>,
     val |-> S.value]

\* The engine state once the machine reacted as P says.
stage_apply(S, P) ==
    [turn_off(S, P.clear) EXCEPT !.active = P.active, !.complete = P.complete]

\* What a handler that started in S0 and ended in S did to the stages: the
\* observer runs when the value of var changed.
stage_observe(S0, S, var) ==
    IF S.active = {} \/ S.value[var] = S0.value[var] THEN S
    ELSE stage_apply(S, stage_on_value_change(stage_plan(S), var))

\* The guards of the variables of varlist are evaluated again.
RECURSIVE stage_reset_guards(_, _, _)
stage_reset_guards(P, varlist, i) ==
    IF i > Len(varlist) THEN P
    ELSE stage_reset_guards(stage_guards_from(P, varlist[i], 1), varlist, i + 1)

\* The Stage a, the leaves after it in the pre-order, and the root: the
\* Stages that are not complete when activity enters a.
stage_from(a) ==
    {StageRoot} \cup {StageOrder[j] : j \in stage_index(a) .. Len(StageOrder)}

\* reset() of the Stage a: its variables are cleared in reverse order, the
\* guards they are antecedents of are evaluated again, and the Stage is
\* entered again: neither it nor a later Stage is complete, and it is the
\* active Stage unless its guard is false.
stage_reset_plan(P, a) ==
    LET P1 == [P EXCEPT !.clear = Reverse(stage_varlist(a)),
                        !.val = [v \in Vars |->
                                    IF v \in Range(stage_varlist(a))
                                    THEN None ELSE @[v]]]
        P2 == stage_reset_guards(P1, stage_varlist(a), 1)
    IN  stage_enter([P2 EXCEPT !.complete = @ \ stage_from(a)], stage_index(a))

\* Stage.active().reset().  Without stages there is no active Stage.
stage_reset(S) ==
    IF S.active = {} THEN S
    ELSE stage_apply(S, stage_reset_plan(stage_plan(S),
                                         CHOOSE s \in S.active : TRUE))

-----------------------------------------------------------------------------
(* The registry of variables and the relations.                            *)

\* The variables the application constructs in its definition phase.
DefineCatalog == {"COMP_ATM", "COMP_ICE", "COMP_ICE_OPTION"}

\* The options a constructor call passes: ConfigVarBase takes the options
\* list as a parameter, ConfigVar takes none (they come through the setter).
define_options(name) ==
    IF varclass = "ConfigVarBase" THEN InitialOptions[name] ELSE <<>>

\* csp.initialized, read by ConfigVar.__init__: the solver was given its
\* relational assertions.
csp_initialized == asrt_relationals # <<>>

\* Mutant: the constructor does not look at the lock.
define_status_no_lock_test(name) ==
    IF name \in vdict THEN "Redefinition"
    ELSE IF varclass = "ConfigVar" /\ csp_initialized THEN "AssertionError"
    ELSE "ok"

\* Mutant: the constructor does not look the name up.
define_status_no_name_test(name) ==
    IF varclass = "ConfigVar" /\ locked THEN "RegistryLocked"
    ELSE IF varclass = "ConfigVar" /\ csp_initialized THEN "AssertionError"
    ELSE "ok"

\* How the constructor returns.  ConfigVarBase.__init__ tests the name only;
\* ConfigVar.__init__ tests the name, then the lock, then csp.initialized.
define_status(name) ==
    IF name \in vdict THEN "Redefinition"
    ELSE IF varclass = "ConfigVar" /\ locked THEN "RegistryLocked"
    ELSE IF varclass = "ConfigVar" /\ csp_initialized THEN "AssertionError"
    ELSE "ok"

\* The engine state the constructor leaves.  A ConfigVarBase constructed
\* with options runs its options setter (which sets an always_set variable
\* to its first valid option); the value stays None otherwise.
define(S, name) ==
    IF define_status(name) # "ok" THEN S
    ELSE IF varclass = "ConfigVarBase" /\ define_options(name) # <<>>
    THEN ConfigVarBase_options(S, name, define_options(name))
    ELSE S

\* How ConfigVar.lock() returns.
lock_status == IF vdict = {} THEN "EmptyRegistry" ELSE "ok"

\* The relations of a bundle that are already in Logic.asrt_relationals.
duplicates(bundle) == Range(bundle) \cap Range(asrt_relationals)

\* The variables the relations of a bundle mention.
bundle_vars(bundle) == UNION {get_vars(r) : r \in Range(bundle)}

\* var._related_vars after the relations of bundle were inserted.
related_vars_with(bundle) ==
    [v \in Vars |->
        related_vars[v] \cup
            (UNION {get_vars(r) : r \in {q \in Range(bundle) : v \in get_vars(q)}}
                \ {v})]

\* Mutant: no check of the whole assertion set after the insertion.
insert_status_no_final_check(bundle) ==
    IF ~(bundle_vars(bundle) \subseteq vdict) THEN "KeyError"
    ELSE IF duplicates(bundle) # {} THEN "DuplicateRelation"
    ELSE "ok"

\* How Logic.insert_relational_assertions returns: KeyError when the setter
\* looks up a variable that is not defined, DuplicateRelation (ValueError)
\* for a relation inserted before, InconsistentRelations (RuntimeError)
\* when the final check is unsat.
insert_status(bundle) ==
    IF ~(bundle_vars(bundle) \subseteq vdict) THEN "KeyError"
    ELSE IF duplicates(bundle) # {} THEN "DuplicateRelation"
    ELSE IF is_unsat(asrt_assignments, asrt_options,
                     Range(asrt_relationals \o bundle))
    THEN "InconsistentRelations"
    ELSE "ok"

\* Mutant: the bundle is stored before it is searched for duplicates.
inserted_before_duplicate_test(bundle) ==
    insert_status(bundle) \in {"ok", "InconsistentRelations", "DuplicateRelation"}

\* The relations are stored, and the related variables recorded, before the
\* final check: a bundle refused as inconsistent stays inserted.
inserted(bundle) == insert_status(bundle) \in {"ok", "InconsistentRelations"}

Install(S) ==
    /\ value' = S.value
    /\ options' = S.options
    /\ options_validities' = S.options_validities
    /\ asrt_assignments' = S.asrt_assignments
    /\ asrt_options' = S.asrt_options
    /\ stage_active' = S.active
    /\ stage_complete' = S.complete

\* V.value = x, x not None.  A call that raises leaves the state as the
\* handler left it (set_value(Cur, var, x).status tells how it returned).
Assign(var, x) ==
    /\ var \in vdict
    /\ Install(stage_observe(Cur, set_value(Cur, var, x).S, var))
    /\ UNCHANGED <<varclass, asrt_relationals, related_vars,
                   all_relational_vars, vdict, locked, pending, solver>>

\* V.value = None.
Reset(var) ==
    /\ var \in vdict
    /\ Install(stage_observe(Cur, set_value(Cur, var, None).S, var))
    /\ UNCHANGED <<varclass, asrt_relationals, related_vars,
                   all_relational_vars, vdict, locked, pending, solver>>

\* V.options = opts.
SetOptions(var, opts) ==
    /\ var \in vdict
    /\ Install(stage_observe(Cur, set_options(Cur, var, opts), var))
    /\ UNCHANGED <<varclass, asrt_relationals, related_vars,
                   all_relational_vars, vdict, locked, pending, solver>>

\* The user picks new_val in the widget of var: one of the options the
\* widget shows, or its none value.
FrontendChange(var, new_val) ==
    /\ var \in vdict
    /\ new_val = None \/ new_val \in Range(options[var])
    /\ Install(stage_observe(Cur,
                  process_frontend_value_change(Cur, var, new_val).S, var))
    /\ UNCHANGED <<varclass, asrt_relationals, related_vars,
                   all_relational_vars, vdict, locked, pending, solver>>

\* Stage.active().reset().
StageReset ==
    /\ Install(stage_reset(Cur))
    /\ UNCHANGED <<varclass, asrt_relationals, related_vars,
                   all_relational_vars, vdict, locked, pending, solver>>

\* The constructor call for name: a name the application has yet to
\* construct, or one it constructed before.
Define(name) ==
    /\ name \in pending \cup vdict
    /\ Install(define(Cur, name))
    /\ vdict' = IF define_status(name) = "ok" THEN vdict \cup {name} ELSE vdict
    /\ pending' = IF define_status(name) = "ok" THEN pending \ {name} ELSE pending
    /\ UNCHANGED <<varclass, asrt_relationals, related_vars,
                   all_relational_vars, locked, solver>>

\* ConfigVar.lock().
Lock ==
    /\ varclass = "ConfigVar"
    /\ locked' = IF lock_status = "ok" THEN TRUE ELSE locked
    /\ UNCHANGED <<varclass, value, options, options_validities,
                   asrt_assignments, asrt_options, asrt_relationals,
                   related_vars, all_relational_vars, vdict, pending, solver,
                   stage_active, stage_complete>>

\* Logic.insert_relational_assertions with the relations of bundle.
InsertRelationalAssertions(bundle) ==
    /\ asrt_relationals' =
          IF inserted(bundle) THEN asrt_relationals \o bundle
          ELSE asrt_relationals
    /\ all_relational_vars' =
          IF inserted(bundle) THEN all_relational_vars \cup bundle_vars(bundle)
          ELSE all_relational_vars
    /\ related_vars' =
          IF inserted(bundle) THEN related_vars_with(bundle) ELSE related_vars
    /\ UNCHANGED <<varclass, value, options, options_validities,
                   asrt_assignments, asrt_options, vdict, locked, pending,
                   solver, stage_active, stage_complete>>

\* A registry without variables, relations and lock.
Blank ==
    /\ options = [v \in Vars |-> <<>>]
    /\ value = [v \in Vars |-> None]
    /\ asrt_assignments = [v \in Vars |-> None]
    /\ options_validities = [v \in Vars |-> <<>>]
    /\ asrt_options = [v \in Vars |-> {}]
    /\ asrt_relationals = <<>>
    /\ related_vars = [v \in Vars |-> {}]
    /\ all_relational_vars = {}
    /\ vdict = {}
    /\ locked = FALSE
    /\ pending = DefineCatalog
    /\ stage_active = {}
    /\ stage_complete = {}

\* The application is running: the component variables are defined with
\* their options while no relation is registered (every option valid, the
\* always_set variables take their first option), the registry is locked
\* (ConfigVar), then the relation bundle is inserted.
Running ==
    /\ options = [v \in Vars |->
                    IF v \in ComponentVars THEN InitialOptions[v] ELSE <<>>]
    /\ value = [v \in Vars |->
                  IF v \in always_set /\ options[v] # <<>>
                  THEN options[v][1] ELSE None]
    /\ asrt_assignments = value
    /\ options_validities =
          [v \in Vars |-> [opt \in Range(options[v]) |-> TRUE]]
    /\ asrt_options = [v \in Vars |-> Range(options[v])]
    /\ asrt_relationals = RelationBundle
    /\ related_vars =
          [v \in Vars |->
              UNION {get_vars(r) : r \in {q \in Range(RelationBundle) : v \in get_vars(q)}}
                  \ {v}]
    /\ all_relational_vars = bundle_vars(RelationBundle)
    /\ vdict = ComponentVars
    /\ locked = (varclass = "ConfigVar")
    /\ pending = {}
    /\ stage_active = {}
    /\ stage_complete = {}

\* The application with stages is running: the variables of defined have
\* their options, the registry is locked, the relations of bundle are
\* inserted and the root's first child is the active Stage.
RunningStages(defined, bundle) ==
    /\ options = [v \in Vars |->
                    IF v \in defined THEN InitialOptions[v] ELSE <<>>]
    /\ value = [v \in Vars |->
                  IF v \in always_set /\ options[v] # <<>>
                  THEN options[v][1] ELSE None]
    /\ asrt_assignments = value
    /\ options_validities =
          [v \in Vars |-> [opt \in Range(options[v]) |-> TRUE]]
    /\ asrt_options = [v \in Vars |-> Range(options[v])]
    /\ asrt_relationals = bundle
    /\ related_vars =
          [v \in Vars |->
              UNION {get_vars(r) : r \in {q \in Range(bundle) : v \in get_vars(q)}}
                  \ {v}]
    /\ all_relational_vars = bundle_vars(bundle)
    /\ vdict = defined
    /\ locked = TRUE
    /\ pending = {}
    /\ stage_active = {stage_first}
    /\ stage_complete = {}

Init ==
    /\ varclass \in {"ConfigVarBase", "ConfigVar"}
    /\ solver = "z3"
    /\ Running

\* The definition phase, from the empty registry.
InitRegistry ==
    /\ varclass \in {"ConfigVarBase", "ConfigVar"}
    /\ solver = "z3"
    /\ Blank

\* The application is running and the solver gives up on every query.
InitUnknown ==
    /\ varclass \in {"ConfigVarBase", "ConfigVar"}
    /\ solver = "unknown"
    /\ (Running \/ Blank)

\* The staged application runs on the ConfigVar class.
InitStages ==
    /\ varclass = "ConfigVar"
    /\ solver = "z3"
    /\ RunningStages(StageVars, WhenBundle)

\* The staged application with all the component variables.
InitStagesFull ==
    /\ varclass = "ConfigVar"
    /\ solver = "z3"
    /\ RunningStages(StageVarsFull, StagesBundle)

\* An application with a ConfigVarBool besides three component variables.
BoolAppVars == {"COMP_ATM", "COMP_ICE", "COMP_OCN", "OCN_CYCLIC_X"}

BoolAppBundle == <<"CAM cannot be coupled with Data ICE.">>

InitBool ==
    /\ varclass = "ConfigVar"
    /\ solver = "z3"
    /\ options = [v \in Vars |->
                    IF v \in BoolAppVars THEN InitialOptions[v] ELSE <<>>]
    /\ value = [v \in Vars |->
                  IF v \in always_set /\ options[v] # <<>>
                  THEN options[v][1] ELSE None]
    /\ asrt_assignments = value
    /\ options_validities =
          [v \in Vars |-> [opt \in Range(options[v]) |-> TRUE]]
    /\ asrt_options = [v \in Vars |-> Range(options[v])]
    /\ asrt_relationals = BoolAppBundle
    /\ related_vars =
          [v \in Vars |->
              UNION {get_vars(r) : r \in {q \in Range(BoolAppBundle) : v \in get_vars(q)}}
                  \ {v}]
    /\ all_relational_vars = bundle_vars(BoolAppBundle)
    /\ vdict = BoolAppVars
    /\ locked = TRUE
    /\ pending = {}
    /\ stage_active = {}
    /\ stage_complete = {}

Next ==
    \/ \E var \in Vars : \E x \in Universe[var] : Assign(var, x)
    \/ \E var \in Vars : Reset(var)
    \/ \E var \in Vars : \E opts \in OptionsCatalog[var] : SetOptions(var, opts)
    \/ \E var \in Vars : \E new_val \in Universe[var] \cup {None} :
          FrontendChange(var, new_val)
    \/ \E name \in Vars : Define(name)
    \/ Lock
    \/ \E bundle \in BundleCatalog : InsertRelationalAssertions(bundle)
    \/ StageReset

Spec == Init /\ [][Next]_vars

SpecRegistry == InitRegistry /\ [][Next]_vars

SpecUnknown == InitUnknown /\ [][Next]_vars

SpecStages == InitStages /\ [][Next]_vars

SpecStagesFull == InitStagesFull /\ [][Next]_vars

SpecBool == InitBool /\ [][Next]_vars

-----------------------------------------------------------------------------
(* The claims.                                                             *)

\* The conjunction of all assignment, option and relational assertions is
\* satisfiable.
AllSatisfiable ==
    check(asrt_assignments, asrt_options, Range(asrt_relationals))

\* The satisfiability of: the assignment assertions of the variables other
\* than var, the option assertions, the relations, and var == opt.
SatisfiableWith(var, opt) ==
    check([asrt_assignments EXCEPT ![var] = opt], asrt_options,
          Range(asrt_relationals))

\* The validities of var that a fresh solver check gives in the state S.
FreshValidities(S, var) ==
    [opt \in Range(S.options[var]) |->
        check([S.asrt_assignments EXCEPT ![var] = opt], S.asrt_options,
              Range(asrt_relationals))]

\* The relations without which var == x would be satisfiable together with
\* the other assignments, the option assertions and the remaining relations.
NeededRelations(var, x) ==
    {q \in Range(asrt_relationals) :
        check([asrt_assignments EXCEPT ![var] = x], asrt_options,
              Range(asrt_relationals) \ {q})}

\* C1: assignment consistency.  In every state reached by set_options,
\* assign and reset, if some variable holds a value then the conjunction of
\* all assignment, option and relational assertions is satisfiable.
C1_AssignmentConsistency ==
    (\E v \in vdict : value[v] # None) => AllSatisfiable

\* C2: validity correctness.  After every operation, for every variable
\* with options and every option, the stored validity is true exactly if
\* the other assignments, the option assertions, the relations and
\* var == opt are satisfiable together.
C2_ValidityCorrectness ==
    \A v \in vdict : \A opt \in Range(options[v]) :
        options_validities[v][opt] = SatisfiableWith(v, opt)

\* C3: rollback purity.  When V.value = x is refused (ConstraintViolation,
\* NotAnOption or any other error), the assignment assertions, the values,
\* the options and the validities of all variables are those of before the
\* call; the engine therefore accepts afterwards what it accepted before.
C3_RollbackPurity ==
    \A v \in vdict : \A x \in Universe[v] :
        set_value(Cur, v, x).status # "ok" => set_value(Cur, v, x).S = Cur

\* C3 witness: a variable that holds a value is refused another one as a
\* constraint violation.
C3_Witness ==
    \E v \in vdict : \E x \in Universe[v] :
        /\ value[v] # None
        /\ asrt_assignments[v] = value[v]
        /\ set_value(Cur, v, x).status = "ConstraintViolation"

\* C4: acceptance equals satisfiability.  For x among V's options (any x
\* when V has none), V.value = x succeeds exactly if the assignments with
\* V's replaced by V == x, the option assertions and the relations are
\* satisfiable together, and fails with ConstraintViolation otherwise.
C4_AcceptanceEqualsSat ==
    \A v \in vdict : \A x \in Universe[v] :
        ~not_an_option(Cur, v, x) =>
            /\ set_value(Cur, v, x).status = "ok" <=> SatisfiableWith(v, x)
            /\ set_value(Cur, v, x).status \in {"ok", "ConstraintViolation"}

\* C5: multi-cause explanation.  The message of a refused assignment names
\* every relation implicated in the refusal: a refusal that needs two or
\* more relations together names all of them.
C5_MultiCauseExplanation ==
    \A v \in vdict : \A x \in Universe[v] :
        set_value(Cur, v, x).status = "ConstraintViolation" =>
            NeededRelations(v, x) \subseteq Range(set_value(Cur, v, x).err_msg)

\* C6: validity propagation.  When V.value = x succeeds, every variable W
\* with options that shares a relation with V holds on return the
\* validities a fresh check against the new assignment gives, and W's value
\* and assignment are untouched; after COMP_ATM := cam the validities of
\* COMP_ICE report dice invalid and cice valid.
C6_ValidityPropagation ==
    \A v \in vdict : \A x \in Universe[v] :
        set_value(Cur, v, x).status = "ok" =>
            LET T == set_value(Cur, v, x).S
            IN  /\ \A w \in related_vars[v] :
                    /\ has_options(T, w) =>
                          T.options_validities[w] = FreshValidities(T, w)
                    /\ T.value[w] = value[w]
                    /\ T.asrt_assignments[w] = asrt_assignments[w]
                /\ (v = "COMP_ATM" /\ x = "cam") =>
                    /\ "dice" \in Range(options["COMP_ICE"]) =>
                          T.options_validities["COMP_ICE"]["dice"] = FALSE
                    /\ "cice" \in Range(options["COMP_ICE"]) =>
                          T.options_validities["COMP_ICE"]["cice"] = TRUE

\* C7: a variable that has options holds None or one of its current
\* options, also after its options were redeclared while it held a value.
C7_ValueInOptions ==
    \A v \in vdict :
        (options[v] # <<>> /\ value[v] # None) => value[v] \in Range(options[v])

\* C8: V.value = x with x outside V's options fails NotAnOption, whatever a
\* solver check of V == x would say, and leaves V's assignment assertion,
\* V's value and the rest of the engine state as they were.
C8_NotAnOption ==
    \A v \in vdict : \A x \in Universe[v] :
        (options[v] # <<>> /\ x \notin Range(options[v])) =>
            /\ set_value(Cur, v, x).status = "NotAnOption"
            /\ set_value(Cur, v, x).S = Cur

\* C8 witness: a variable that holds a value is given a value outside its
\* options, one a solver check alone would have accepted.
C8_Witness ==
    \E v \in vdict : \E x \in Universe[v] :
        /\ options[v] # <<>>
        /\ x \notin Range(options[v])
        /\ value[v] # None
        /\ check([asrt_assignments EXCEPT ![v] = x],
                 [asrt_options EXCEPT ![v] = {}], Range(asrt_relationals))
        /\ set_value(Cur, v, x).status = "NotAnOption"

\* C9: the assertion store agrees with the values.  After every operation a
\* variable has the assignment assertion V == value exactly if its value is
\* not None (one entry per variable), and V.value = None removes it, is
\* never refused and checks nothing.
C9_AssertionsAgreeWithValues ==
    /\ \A v \in vdict : asrt_assignments[v] = value[v]
    /\ \A v \in vdict :
        /\ set_value(Cur, v, None).status = "ok"
        /\ set_value(Cur, v, None).S.value[v] = None
        /\ set_value(Cur, v, None).S.asrt_assignments[v] = None

\* C9 witness: COMP_OCN, set at construction, was reset while another
\* variable holds a value with its assertion.
C9_Witness ==
    /\ value["COMP_OCN"] = None
    /\ asrt_assignments["COMP_OCN"] = None
    /\ options_validities["COMP_OCN"] = [socn |-> TRUE, mom |-> TRUE]
    /\ \E v \in vdict : value[v] # None /\ asrt_assignments[v] = value[v]

\* C10: an always_set variable with at least one valid option has a value.
C10_AlwaysSetHasValue ==
    \A v \in always_set :
        (\E opt \in Range(options[v]) : options_validities[v][opt])
            => value[v] # None

C12_UniqueNames ==
    \A name \in vdict :
        /\ define_status(name) = "Redefinition"
        /\ define(Cur, name) = Cur

\* C12 witness: a registered variable that holds a value is constructed
\* again.
C12_Witness ==
    \E name \in vdict :
        /\ value[name] # None
        /\ asrt_assignments[name] = value[name]
        /\ define_status(name) = "Redefinition"

\* C13: lock() on a registry that is locked fails with AlreadyLocked.
C13_LockNotIdempotent ==
    (varclass = "ConfigVar" /\ locked) => lock_status = "AlreadyLocked"

\* C14: a solver answer of unknown counts as unsat in every query: an
\* assignment that is checked is refused, every option is marked invalid,
\* and a relation bundle is not accepted as consistent.
C14_UnknownIsUnsat ==
    solver = "unknown" =>
        /\ varclass = "ConfigVarBase" =>
              \A v \in vdict : \A x \in Universe[v] :
                  set_value(Cur, v, x).status # "ok"
        /\ \A v \in vdict : \A opt \in Range(options[v]) :
              get_options_validities(Cur, v)[opt] = FALSE
        /\ \A bundle \in BundleCatalog :
              (bundle_vars(bundle) \subseteq vdict /\ duplicates(bundle) = {})
                  => insert_status(bundle) # "ok"

\* C15: a bundle that holds a relation registered before is refused with
\* DuplicateRelation and none of its relations is stored: the relation
\* store, the relational variables and the related-variable sets stay.
C15_DuplicateRelation ==
    \A bundle \in BundleCatalog :
        (bundle_vars(bundle) \subseteq vdict /\ duplicates(bundle) # {}) =>
            /\ insert_status(bundle) = "DuplicateRelation"
            /\ ~inserted(bundle)

\* C15 witness: a bundle with a new relation followed by a registered one
\* is offered while variables hold values.
C15_Witness ==
    /\ insert_status(MixedBundle) = "DuplicateRelation"
    /\ Range(MixedBundle) \ Range(asrt_relationals) # {}
    /\ \E v \in vdict : value[v] # None

\* C16: the insertion of a bundle (defined variables, no duplicate) fails
\* with InconsistentRelations exactly if the assignments, the option
\* assertions and all relations, the new ones included, are unsatisfiable;
\* when it returns normally they are satisfiable.
C16_GlobalCheck ==
    \A bundle \in BundleCatalog :
        (bundle_vars(bundle) \subseteq vdict /\ duplicates(bundle) = {}) =>
            /\ insert_status(bundle) = "InconsistentRelations"
                  <=> ~check(asrt_assignments, asrt_options,
                             Range(asrt_relationals \o bundle))
            /\ insert_status(bundle) = "ok"
                  <=> check(asrt_assignments, asrt_options,
                            Range(asrt_relationals \o bundle))

\* C16 witness: the When bundle is offered while COMP_ICE is dice and
\* COMP_ICE_OPTION is (none), and is refused as inconsistent.
C16_Witness ==
    /\ value["COMP_ICE"] = "dice"
    /\ value["COMP_ICE_OPTION"] = "(none)"
    /\ asrt_relationals = <<>>
    /\ insert_status(WhenBundle) = "InconsistentRelations"

\* C20: When-clause direction.  With When(COMP_ICE=="dice",
\* COMP_ICE_OPTION != "(none)") registered, COMP_ICE, which occurs only in
\* the antecedent, is not a related variable (peer) of COMP_ICE_OPTION, and
\* an assignment to COMP_ICE_OPTION leaves the validities of COMP_ICE as
\* they were.
C20_WhenDirection ==
    ("Must pick a valid DICE option." \in Range(asrt_relationals)) =>
        /\ "COMP_ICE" \notin related_vars["COMP_ICE_OPTION"]
        /\ \A x \in Universe["COMP_ICE_OPTION"] :
              set_value(Cur, "COMP_ICE_OPTION", x).status = "ok" =>
                  set_value(Cur, "COMP_ICE_OPTION", x).S.options_validities["COMP_ICE"]
                      = options_validities["COMP_ICE"]

\* The variables reached from var through related-variable edges.
RECURSIVE reach(_, _)
reach(seen, frontier) ==
    IF frontier \subseteq seen THEN seen
    ELSE reach(seen \cup frontier, UNION {related_vars[w] : w \in frontier})

Reachable(var) == reach({}, related_vars[var]) \ {var}

\* The positions of the recomputations of the traversal that the
\* registration at position i of a log starts: those up to the next
\* registration.
Traversal(log, i) ==
    {j \in i + 1 .. Len(log) :
        /\ log[j][1] = "recompute"
        /\ \A k \in i + 1 .. j : log[k][1] # "register"}

\* Each traversal of a log recomputes a variable at most once, and only
\* variables reachable from the registered one.
BoundedTraversals(log) ==
    \A i \in DOMAIN log :
        log[i][1] = "register" =>
            /\ \A j, k \in Traversal(log, i) : log[j] = log[k] => j = k
            /\ \A j \in Traversal(log, i) : log[j][2] \in Reachable(log[i][2])
            /\ Cardinality(Traversal(log, i)) <= Cardinality(Reachable(log[i][2]))

\* C17: propagation terminates.  The traversal that an assignment starts,
\* the assignments nested in an options change included, recomputes each
\* variable's validities at most once, so at most as many times as there
\* are variables reachable from the assigned one by related-variable edges.
C17_PropagationBounded ==
    /\ \A v \in vdict : \A x \in Universe[v] \cup {None} :
          BoundedTraversals(set_value(Cur, v, x).S.log)
    /\ \A v \in vdict : \A opts \in OptionsCatalog[v] :
          BoundedTraversals(set_options(Cur, v, opts).log)

\* C17 witness: an assignment whose traversal recomputes more than one
\* variable, one of them reached through a variable whose validities
\* changed.
C17_Witness ==
    \E v \in vdict : \E x \in Universe[v] :
        LET log == set_value(Cur, v, x).S.log
        IN  \E i \in DOMAIN log :
                /\ log[i] = <<"register", v>>
                /\ \E j \in Traversal(log, i) : log[j][2] \notin related_vars[v]

\* The steps of log before position i hold e.
Before(log, i, e) == \E j \in 1 .. i - 1 : log[j] = e

Depth(log, i) ==
    Cardinality({j \in 1 .. i - 1 : log[j][1] = "enter"})
        - Cardinality({j \in 1 .. i - 1 : log[j][1] = "leave"})

\* C19: no reentrant assignment.  No assignment is registered while a
\* routine that recomputes the validities of a variable is running.
C19_NoReentrantAssign ==
    /\ \A v \in vdict : \A x \in Universe[v] \cup {None} :
          LET log == set_value(Cur, v, x).S.log
          IN  \A i \in DOMAIN log : log[i][1] = "register" => Depth(log, i) = 0
    /\ \A v \in vdict : \A opts \in OptionsCatalog[v] :
          LET log == set_options(Cur, v, opts).log
          IN  \A i \in DOMAIN log : log[i][1] = "register" => Depth(log, i) = 0

\* C21: layer direction.  An assignment or a reset of a variable leaves
\* the validities and the value of every variable of a lower layer as they
\* were.
C21_LayerDirection ==
    \A v \in vdict : \A w \in vdict :
        layer[w] < layer[v] =>
            \A x \in Universe[v] \cup {None} :
                /\ set_value(Cur, v, x).S.options_validities[w] = options_validities[w]
                /\ set_value(Cur, v, x).S.value[w] = value[w]

\* The first option of var, in option order, that the validities of S mark
\* valid; None when there is none.
FirstValid(S, var) ==
    LET valid == {i \in DOMAIN S.options[var] :
                    S.options_validities[var][S.options[var][i]]}
    IN  IF valid = {} THEN None
        ELSE S.options[var][CHOOSE i \in valid : \A j \in valid : i <= j]

\* C28: value after an options change.  When the options setter gives a
\* variable a different set of options, an always_set variable takes the
\* first valid option (unset when none is valid) and the assignment is
\* registered again even when that option is the old value; any other
\* variable becomes unset.
C28_ValueAfterOptionsChange ==
    \A v \in vdict : \A opts \in OptionsCatalog[v] :
        Range(opts) # Range(options[v]) =>
            LET S2 == set_options(Cur, v, opts)
            IN  IF v \in always_set
                THEN /\ S2.value[v] = FirstValid(S2, v)
                     /\ S2.asrt_assignments[v] = S2.value[v]
                     /\ S2.value[v] # None =>
                          \E i \in DOMAIN S2.log : S2.log[i] = <<"register", v>>
                ELSE S2.value[v] = None

Recomputed(log) == {log[j][2] : j \in {k \in DOMAIN log : log[k][1] = "recompute"}}

\* C30: propagation frontier.  The traversal of an assignment to V visits
\* only variables with options that are related to V or to a visited
\* variable whose validities changed; a variable whose validities stay
\* adds nothing.
C30_PropagationFrontier ==
    \A v \in vdict : \A x \in Universe[v] \cup {None} :
        LET r == set_value(Cur, v, x)
        IN  \A w \in Recomputed(r.S.log) :
                /\ has_options(Cur, w)
                /\ \/ w \in related_vars[v]
                   \/ \E u \in Recomputed(r.S.log) :
                        /\ r.S.options_validities[u] # options_validities[u]
                        /\ w \in related_vars[u]

\* C30 witness: an accepted assignment whose traversal visits a related
\* variable, finds its validities unchanged and stops there although that
\* variable has further related variables.
C30_Witness ==
    \E v \in vdict : \E x \in Universe[v] :
        LET r == set_value(Cur, v, x)
        IN  /\ r.status = "ok"
            /\ \E u \in Recomputed(r.S.log) :
                  /\ r.S.options_validities[u] = options_validities[u]
                  /\ \E w \in related_vars[u] \ (related_vars[v] \cup {v}) :
                        has_options(Cur, w) /\ w \notin Recomputed(r.S.log)

\* C27: frontend selection of an invalid option.  When the user picks an
\* option that the widget marks invalid, the handler raises an alert with
\* the error message and the sink displays the variable's value again (the
\* none value when unset); the values, the assignment assertions and the
\* validities stay.
C27_FrontendInvalidSelection ==
    \A v \in vdict : \A opt \in Range(options[v]) :
        ~options_validities[v][opt] =>
            LET r == process_frontend_value_change(Cur, v, opt)
            IN  /\ r.status = "alert"
                /\ r.err_msg = retrieve_error_msg(Cur, v, opt).err_msg
                /\ r.err_msg # <<>>
                /\ r.S.sink[v] = widget_display(value[v])
                /\ r.S.value = value
                /\ r.S.asrt_assignments = asrt_assignments
                /\ r.S.options_validities = options_validities


\* C22: with stages set up, exactly one leaf Stage is active in every
\* reachable state; while no Stage is complete it is the root's first
\* child; and an assignment, accepted or rejected, leaves exactly one leaf
\* active (a rejected one leaves the stages as they were).
C22_ExactlyOneActive ==
    stage_active # {} =>
        /\ stage_active \subseteq Range(StageOrder)
        /\ Cardinality(stage_active) = 1
        /\ stage_complete = {} => stage_active = {stage_first}
        /\ \A var \in vdict : \A x \in Universe[var] :
              LET R  == set_value(Cur, var, x)
                  S2 == stage_observe(Cur, R.S, var)
              IN  /\ Cardinality(S2.active \cap Range(StageOrder)) = 1
                  /\ R.status # "ok" =>
                        S2.active = stage_active /\ S2.complete = stage_complete

\* Activity was handed over to the second leaf, where one assignment is
\* rejected and another one is accepted.
C22_Witness ==
    /\ stage_active = {"Component Options"}
    /\ "Components" \in stage_complete
    /\ \E var \in vdict : \E x \in Universe[var] :
          set_value(Cur, var, x).status # "ok"
    /\ \E var \in vdict : \E x \in Universe[var] :
          set_value(Cur, var, x).status = "ok" /\ value[var] # x


\* The positions after the Stage a whose guard holds on the values val.
Enterable(val, a) ==
    {i \in stage_index(a) + 1 .. Len(StageOrder) : stage_guard(val, StageOrder[i])}

\* The Stage a completed in S2 and activity went where the pre-order says:
\* to the first later leaf whose guard holds, the leaves in between being
\* skipped, or nowhere when there is none, and then the parent completed.
HandedOver(S2, a) ==
    /\ a \in S2.complete
    /\ IF Enterable(S2.value, a) # {}
       THEN LET n == CHOOSE i \in Enterable(S2.value, a) :
                        \A j \in Enterable(S2.value, a) : i <= j
            IN  /\ S2.active = {StageOrder[n]}
                /\ \A j \in stage_index(a) + 1 .. n - 1 :
                      StageOrder[j] \in S2.complete
                /\ (StageRoot \in S2.complete) = (StageRoot \in stage_complete)
       ELSE /\ S2.active = {a}
            /\ StageRoot \in S2.complete
            /\ \A j \in stage_index(a) + 1 .. Len(StageOrder) :
                  StageOrder[j] \in S2.complete

ValueEvents(log) ==
    LET idx == SelectSeq([i \in 1 .. Len(log) |-> i],
                         LAMBDA i : log[i][1] = "value")
    IN  [k \in 1 .. Len(idx) |-> log[idx[k]][2]]

\* The position of var in the list of variables the Stage a owns.
OwnedIndex(a, var) ==
    CHOOSE i \in 1 .. Len(stage_varlist(a)) : stage_varlist(a)[i] = var

\* C25: after reset() of the active Stage (a Stage whose guard holds, not
\* one that was skipped) every variable it owns is unset
\* and has no assignment assertion, the variables were cleared from the
\* last owned to the first, the Stage is active and not complete, and a
\* value that was rejected before the reset and is satisfiable with the
\* assignments that remain is accepted.
C25_StageReset ==
    (stage_active # {} /\ stage_guard(value, CHOOSE s \in stage_active : TRUE)) =>
        LET a  == CHOOSE s \in stage_active : TRUE
            S2 == stage_reset(Cur)
            ev == ValueEvents(S2.log)
        IN  /\ \A v \in Range(stage_varlist(a)) :
                  S2.value[v] = None /\ S2.asrt_assignments[v] = None
            /\ S2.active = {a} /\ a \notin S2.complete
            /\ \A i, j \in 1 .. Len(ev) :
                  (i < j /\ {ev[i], ev[j]} \subseteq Range(stage_varlist(a)))
                      => OwnedIndex(a, ev[i]) > OwnedIndex(a, ev[j])
            /\ \A var \in vdict : \A x \in Range(options[var]) :
                  (/\ set_value(Cur, var, x).status # "ok"
                   /\ check([S2.asrt_assignments EXCEPT ![var] = x],
                            S2.asrt_options, Range(asrt_relationals)))
                  => set_value(S2, var, x).status = "ok"

SameEngineState(S) ==
    /\ S.value = value
    /\ S.options = options
    /\ S.options_validities = options_validities
    /\ S.asrt_assignments = asrt_assignments
    /\ S.asrt_options = asrt_options
    /\ S.active = stage_active
    /\ S.complete = stage_complete

\* C31: assigning to a variable the value it already holds leaves the
\* whole engine state unchanged: the values, assignment assertions and
\* validities of all variables, and the stages.
C31_ReassignIdempotent ==
    \A var \in vdict :
        SameEngineState(
            stage_observe(Cur, set_value(Cur, var, value[var]).S, var))


\* C32: for a bool variable with always_set, a frontend change that sets
\* the sink to its none value is reverted: the sink is set back to the
\* display of the current value, the value stays and no error is raised.
C32_BoolNoneReverted ==
    \A v \in (BoolVars \cap always_set) \cap vdict :
        LET r == process_frontend_value_change(Cur, v, None)
        IN  /\ r.status = "ok"
            /\ r.S.sink[v] = widget_display(value[v])
            /\ r.S.value = value

\* C33: the keys of the validities map of every variable are exactly its
\* current options (no key for a variable without options), in the state
\* and after every options change, accepted assignment or reset.
C33_ValidityDomain ==
    /\ \A v \in Vars : DOMAIN options_validities[v] = Range(options[v])
    /\ \A v \in vdict : \A opts \in OptionsCatalog[v] :
          LET S2 == set_options(Cur, v, opts)
          IN  \A w \in Vars :
                  DOMAIN S2.options_validities[w] = Range(S2.options[w])

\* The options of a variable were replaced by a list with other elements
\* while another variable holds a value.
C33_Witness ==
    \E v \in vdict :
        /\ options[v] # <<>>
        /\ Range(options[v]) # Range(InitialOptions[v])
        /\ \E w \in vdict \ {v} : value[w] # None


\* C34: a variable with options that holds a value has that value marked
\* valid in its validities map.
C34_CurrentValueValid ==
    \A v \in vdict :
        (has_options(Cur, v) /\ value[v] # None /\ value[v] \in Range(options[v]))
            => options_validities[v][value[v]]

\* C35: once relations are registered, every variable with a non-empty
\* option list has at least one option marked valid, so that
\* get_first_valid_option returns an option for it.
C35_NoDeadEnd ==
    asrt_relationals # <<>> =>
        \A v \in vdict :
            has_options(Cur, v) =>
                /\ \E opt \in Range(options[v]) : options_validities[v][opt]
                /\ get_first_valid_option(Cur, v) # None

\* C36: retrieve_error_msg(V, x) fails with a runtime error when V == x is
\* satisfiable with the other assignments, the option assertions and all
\* relations; when it is unsatisfiable and a relation is registered, the
\* message names one registered relation, never the generic "violates
\* multiple assertions".  An answer of unknown counts as unsatisfiable.
C36_ErrorMsgNamesRelation ==
    \A v \in vdict : \A x \in Universe[v] :
        LET r == retrieve_error_msg(Cur, v, x)
        IN  IF solver = "z3" /\ SatisfiableWith(v, x)
            THEN r.status = "RuntimeError"
            ELSE asrt_relationals # <<>> =>
                    /\ r.status = "ConstraintViolation"
                    /\ \E q \in Range(asrt_relationals) : r.err_msg = <<q>>

=============================================================================
